---- MODULE Spec2Model ----
(***************************************************************************)
(* GS Funds Tracker (Home Assistant custom component).                     *)
(*                                                                         *)
(* Four specifications over one set of variables:                          *)
(*   SpecStats  calculate_group_stats applied to bounded entry lists       *)
(*   SpecOrder  calculate_group_stats on lists where the order of a        *)
(*              group's purchases matters                                  *)
(*   Spec       platform setup (async_setup_entry / async_setup_platform)  *)
(*              followed by the coordinators' refresh cycles               *)
(*   SpecFlow   the config flow and the options flow editing the entries   *)
(*                                                                         *)
(* Python values are tagged records: None, str (a sequence of characters), *)
(* float (a rational n/d, d > 0, in lowest terms) and the marker for a     *)
(* dict key that is not there.  Floats are exact below 2^MantissaBits and  *)
(* the sums and products of the aggregator round above it; the binary      *)
(* rounding of fractions, inf and nan are outside the model.               *)
(***************************************************************************)
EXTENDS Integers, Sequences, FiniteSets, TLC

VARIABLES
    entries,      \* the list object holding the fund entries (options["entries"])
    result,       \* SpecStats: what calculate_group_stats returned or raised
    source,       \* Spec: "ui" (config entry) or "yaml" (platform)
    phase,        \* Spec: progress of the platform setup
    idx,          \* Spec: position of the setup loop in entries
    group_stats,  \* Spec: group table computed at the start of setup
    coords,       \* Spec: the FundCoordinator objects created so far
    published,    \* Spec: indices whose sensors were handed to async_add_entities
    last,         \* Spec: the most recent refresh cycle (entry, response, outcome)
    flow,         \* SpecFlow: the running config/options flow handler
    stored        \* settings saved in the config entry (SpecFlow, Spec) or
                  \* read from the YAML platform config (Spec)

vars == <<entries, result, source, phase, idx, group_stats, coords, published,
          last, flow, stored>>

----------------------------------------------------------------------------
(* Python values *)

NoneV == [t |-> "none"]
Absent == [t |-> "absent"]
Raise(e) == [t |-> "raise", e |-> e]
Str(s) == [t |-> "str", s |-> s]

Abs(x) == IF x < 0 THEN -x ELSE x

RECURSIVE Gcd(_, _)
Gcd(a, b) == IF b = 0 THEN a ELSE Gcd(b, a % b)

\* n/d in lowest terms, d > 0
Rat(n, d) ==
    LET g == Gcd(Abs(n), d)
    IN  [t |-> "num", n |-> n \div g, d |-> d \div g]

Num(n) == Rat(n, 1)
Zero == Num(0)

RAdd(a, b) == Rat(a.n * b.d + b.n * a.d, a.d * b.d)
RSub(a, b) == Rat(a.n * b.d - b.n * a.d, a.d * b.d)
RMul(a, b) == Rat(a.n * b.n, a.d * b.d)
\* b # 0
RDiv(a, b) ==
    IF b.n > 0 THEN Rat(a.n * b.d, a.d * b.n)
    ELSE Rat(-(a.n * b.d), a.d * (-b.n))
RLeq(a, b) == a.n * b.d <= b.n * a.d
RAbs(a) == Rat(Abs(a.n), a.d)

RECURSIVE Pow10(_)
Pow10(k) == IF k = 0 THEN 1 ELSE 10 * Pow10(k - 1)

\* round(x, k): to k decimal places, ties to even
round(x, k) ==
    LET s == Pow10(k)
        q == (x.n % x.d) * s
        f == (x.n \div x.d) * s + (q \div x.d)
        r == q % x.d
        m == IF 2 * r < x.d THEN f
             ELSE IF 2 * r > x.d THEN f + 1
             ELSE IF f % 2 = 0 THEN f ELSE f + 1
    IN  Rat(m, s)

\* A Python float keeps 53 significant bits, so a sum that needs more loses
\* its lowest bits.  The floats of this module keep MantissaBits bits in
\* their integer part and are exact below 2^MantissaBits: the numbers that
\* show the rounding are then four digits long instead of sixteen.
MantissaBits == 10

RECURSIVE Pow2(_)
Pow2(k) == IF k = 0 THEN 1 ELSE 2 * Pow2(k - 1)

\* distance between neighbouring floats at integer part n: 1 or less below
\* 2^MantissaBits, 2 up to twice that, 4 up to four times that, ...
RECURSIVE Spacing(_, _)
Spacing(n, s) == IF n < Pow2(MantissaBits) * s THEN s ELSE Spacing(n, 2 * s)

\* the float nearest to the exact result x, ties to even
fl(x) ==
    LET a == Abs(x.n)
        s == Spacing(a \div x.d, 1)
        den == x.d * s
        f == a \div den
        r == a % den
        m == IF 2 * r < den THEN f
             ELSE IF 2 * r > den THEN f + 1
             ELSE IF f % 2 = 0 THEN f ELSE f + 1
    IN  IF s = 1 THEN x
        ELSE Num((IF x.n < 0 THEN -1 ELSE 1) * m * s)

\* float + float, float * float
FloatAdd(a, b) == fl(RAdd(a, b))
FloatMul(a, b) == fl(RMul(a, b))

\* truth value of a Python object
Truthy(v) ==
    CASE v.t = "num" -> v.n # 0
      [] v.t = "str" -> v.s # <<>>
      [] OTHER -> FALSE

Digits == <<"0", "1", "2", "3", "4", "5", "6", "7", "8", "9">>
IsDigit(c) == \E i \in 1..10 : Digits[i] = c
DigitVal(c) == (CHOOSE i \in 1..10 : Digits[i] = c) - 1

RECURSIVE ParseDigits(_, _)
ParseDigits(s, acc) ==
    IF s = <<>> THEN acc
    ELSE ParseDigits(Tail(s), 10 * acc + DigitVal(Head(s)))

\* float(v): a number stays, a string of digits is parsed, any other string
\* raises ValueError, None raises TypeError
float(v) ==
    CASE v.t = "num" -> v
      [] v.t = "str" ->
            IF v.s # <<>> /\ \A i \in 1..Len(v.s) : IsDigit(v.s[i])
            THEN Num(ParseDigits(v.s, 0))
            ELSE Raise("ValueError")
      [] OTHER -> Raise("TypeError")

\* dict.get(key): None for a key that is not there
Get(v) == IF v.t = "absent" THEN NoneV ELSE v

\* x or 0
Or0(v) == IF Truthy(v) THEN v ELSE Zero

\* f"{value:.3f}" of _format_units: a decimal string of three places,
\* kept as the number it denotes
_format_units(value) ==
    IF value.t = "none" THEN NoneV
    ELSE LET r == round(value, 3) IN [t |-> "fmt", n |-> r.n, d |-> r.d]

----------------------------------------------------------------------------
(* sensor.py: grouping *)

\* f"{pv}:{scid}", or None
_group_key(entry) ==
    LET scid == Get(entry.shareClassId)
        pv == Get(entry.pvNumber)
    IN  IF ~Truthy(scid) \/ ~Truthy(pv) THEN NoneV
        ELSE Str(pv.s \o <<":">> \o scid.s)

\* lines 138-143 with the units of an entry that gives none read as 0,
\* whatever its invested amount
EntryPriceUnitsNoAmount(entry) ==
    LET price == float(Or0(Get(entry.price_per_unit)))
        units0 == Get(entry.units_acquired)
    IN  IF price.t = "raise" THEN price
        ELSE LET units == float(Or0(units0))
             IN  IF units.t = "raise" THEN units
                 ELSE [t |-> "pu", price |-> price, units |-> units]

\* lines 138-143: <<price, units>> of one entry, or the exception raised
EntryPriceUnits(entry) ==
    LET price == float(Or0(Get(entry.price_per_unit)))
        units0 == Get(entry.units_acquired)
        total == Get(entry.value_of_investment)
    IN  IF price.t = "raise" THEN price
        ELSE LET units1 ==
                     IF units0.t = "none"
                     THEN IF Truthy(total) /\ Truthy(price)
                          THEN LET ft == float(total)
                               IN  IF ft.t = "raise" THEN ft ELSE RDiv(ft, price)
                          ELSE Zero
                     ELSE units0
             IN  IF units1.t = "raise" THEN units1
                 ELSE LET units == float(Or0(units1))
                      IN  IF units.t = "raise" THEN units
                          ELSE [t |-> "pu", price |-> price, units |-> units]

\* lines 134-146: the accumulation loop from entry i on
RECURSIVE Accumulate(_, _, _)
Accumulate(es, i, groups) ==
    IF i > Len(es) THEN [t |-> "groups", g |-> groups]
    ELSE LET key == _group_key(es[i])
         IN  IF ~Truthy(key) THEN Accumulate(es, i + 1, groups)
             ELSE LET pu == EntryPriceUnits(es[i])
                  IN  IF pu.t = "raise" THEN pu
                      ELSE LET old == IF key.s \in DOMAIN groups THEN groups[key.s]
                                      ELSE [weighted_sum |-> Zero, total_units |-> Zero]
                               new == [weighted_sum |->
                                           FloatAdd(old.weighted_sum,
                                                    FloatMul(pu.price, pu.units)),
                                       total_units |->
                                           FloatAdd(old.total_units, pu.units)]
                           IN  Accumulate(es, i + 1,
                                   [k \in (DOMAIN groups) \cup {key.s} |->
                                       IF k = key.s THEN new ELSE groups[k]])

\* lines 147-149
AvgPriceTwoPlaces(group) ==
    IF Truthy(group.total_units)
    THEN round(RDiv(group.weighted_sum, group.total_units), 2)
    ELSE Zero

AvgPrice(group) ==
    IF Truthy(group.total_units)
    THEN round(RDiv(group.weighted_sum, group.total_units), 4)
    ELSE Zero

EmptyGroups == [k \in {} |-> Zero]

\* the group table, or the exception that escaped
calculate_group_stats(es) ==
    LET acc == Accumulate(es, 1, EmptyGroups)
    IN  IF acc.t = "raise" THEN acc
        ELSE [t |-> "groups",
              g |-> [k \in DOMAIN acc.g |->
                        [weighted_sum |-> acc.g[k].weighted_sum,
                         total_units |-> acc.g[k].total_units,
                         avg_price |-> AvgPrice(acc.g[k])]]]

----------------------------------------------------------------------------
(* sensor.py: FundCoordinator *)

\* What the NAV source answered to the POST of lines 196-204: the request
\* raised (transport error, timeout), or an HTTP status with a JSON body that
\* has fundsDetail or not, a netAssetValue stat or not, and that stat's value.
Response(exc, status, detail, nav_stat, value) ==
    [exc |-> exc, status |-> status, detail |-> detail, nav_stat |-> nav_stat,
     value |-> value]

\* lines 195-217 with a missing value read as 0
ExtractNavOrZero(resp) ==
    IF resp.exc \/ resp.status # 200 THEN Raise("UpdateFailed")
    ELSE IF ~resp.detail THEN Raise("UpdateFailed")
    ELSE float(Or0(resp.value))

\* lines 195-217 without the test of the stat's value against None
ExtractNavNullValue(resp) ==
    IF resp.exc \/ resp.status # 200 THEN Raise("UpdateFailed")
    ELSE IF ~resp.detail THEN Raise("UpdateFailed")
    ELSE IF ~resp.nav_stat THEN Raise("UpdateFailed")
    ELSE float(resp.value)

\* lines 195-217: the NAV of the response, or UpdateFailed
ExtractNav(resp) ==
    IF resp.exc \/ resp.status # 200 THEN Raise("UpdateFailed")
    ELSE IF ~resp.detail THEN Raise("UpdateFailed")
    ELSE IF ~resp.nav_stat \/ resp.value.t = "none" THEN Raise("UpdateFailed")
    ELSE float(resp.value)

\* float / float
Div(a, b) == IF b.n = 0 THEN Raise("ZeroDivisionError") ELSE RDiv(a, b)

\* lines 218-222: <<acquisition_price, units>> of the coordinator's entry
OwnPriceUnits(entry) ==
    LET acquisition_price == float(Or0(Get(entry.price_per_unit)))
        units0 == Get(entry.units_acquired)
        total == Get(entry.value_of_investment)
    IN  IF acquisition_price.t = "raise" THEN acquisition_price
        ELSE LET units ==
                     IF units0.t = "none"
                     THEN IF Truthy(total) /\ Truthy(acquisition_price)
                          THEN LET ft == float(total)
                               IN  IF ft.t = "raise" THEN ft
                                   ELSE Div(ft, acquisition_price)
                          ELSE Zero
                     ELSE units0
             IN  IF units.t = "raise" THEN units
                 ELSE IF units.t # "num" THEN Raise("TypeError")
                 ELSE [t |-> "pu", price |-> acquisition_price, units |-> units]

\* self._group_info = group_info or {}
EmptyDict == [t |-> "empty"]

\* group_stats.get(_group_key(entry)) or {}
GroupInfo(gs, entry) ==
    LET k == _group_key(entry)
    IN  IF Truthy(k) /\ k.s \in DOMAIN gs
        THEN [t |-> "group", weighted_sum |-> gs[k.s].weighted_sum,
              total_units |-> gs[k.s].total_units, avg_price |-> gs[k.s].avg_price]
        ELSE EmptyDict

\* lines 224-231 without the zero-price guard on profit
ValuationUnguarded(nav, acquisition_price, units, group_info) ==
    LET effective_price == IF group_info.t = "group" THEN group_info.avg_price
                           ELSE acquisition_price
        effective_units == IF group_info.t = "group" THEN group_info.total_units
                           ELSE units
        ratio == Div(nav, effective_price)
    IN  [effective_price |-> effective_price,
         effective_units |-> effective_units,
         profit |-> RMul(RSub(nav, effective_price), units),
         return_pct |-> IF Truthy(effective_price)
                        THEN RMul(RSub(ratio, Num(1)), Num(100)) ELSE Zero]

\* lines 224-231 with the profit sized by the group's units
ValuationGroupUnits(nav, acquisition_price, units, group_info) ==
    LET effective_price == IF group_info.t = "group" THEN group_info.avg_price
                           ELSE acquisition_price
        effective_units == IF group_info.t = "group" THEN group_info.total_units
                           ELSE units
        ratio == Div(nav, effective_price)
    IN  [effective_price |-> effective_price,
         effective_units |-> effective_units,
         profit |-> IF Truthy(effective_price)
                    THEN RMul(RSub(nav, effective_price), effective_units) ELSE Zero,
         return_pct |-> IF Truthy(effective_price)
                        THEN RMul(RSub(ratio, Num(1)), Num(100)) ELSE Zero]

\* lines 224-231
Valuation(nav, acquisition_price, units, group_info) ==
    LET group_avg_price == IF group_info.t = "group" THEN group_info.avg_price ELSE NoneV
        group_units == IF group_info.t = "group" THEN group_info.total_units ELSE NoneV
        effective_price == IF group_avg_price.t # "none" THEN group_avg_price
                           ELSE acquisition_price
        effective_units == IF group_units.t # "none" THEN group_units ELSE units
        ratio == Div(nav, effective_price)
    IN  [effective_price |-> effective_price,
         effective_units |-> effective_units,
         profit |-> IF Truthy(effective_price)
                    THEN RMul(RSub(nav, effective_price), units) ELSE Zero,
         return_pct |-> IF Truthy(effective_price)
                        THEN RMul(RSub(ratio, Num(1)), Num(100)) ELSE Zero]

\* lines 180-257: the record returned, or the exception raised.  The
\* pass-through display fields (names, currency, dates, day change) are left out.
_async_update_data(entry, group_info, resp) ==
    IF entry.pvNumber.t = "absent" \/ entry.shareClassId.t = "absent"
    THEN Raise("KeyError")
    ELSE LET nav == ExtractNav(resp)
             pu == OwnPriceUnits(entry)
         IN  IF nav.t = "raise" THEN nav
             ELSE IF pu.t = "raise" THEN pu
             ELSE LET v == Valuation(nav, pu.price, pu.units, group_info)
                  IN  [t |-> "data",
                       pv_number |-> Get(entry.pvNumber),
                       nav |-> nav,
                       acquisition_price |-> v.effective_price,
                       entry_price |-> pu.price,
                       entry_units |-> _format_units(pu.units),
                       group_avg_price |->
                           IF group_info.t = "group" THEN group_info.avg_price ELSE NoneV,
                       group_total_units |->
                           IF group_info.t = "group"
                           THEN _format_units(group_info.total_units) ELSE NoneV,
                       units |-> _format_units(v.effective_units),
                       profit |-> round(v.profit, 2),
                       return_pct |-> round(v.return_pct, 2),
                       value_of_investment |-> Get(entry.value_of_investment),
                       units_aquired |-> pu.units]

\* FundCoordinator.__init__ (lines 162-178); data is None until a refresh
\* succeeds.  good is history: the record of the last cycle whose response
\* carried a usable NAV.
FundCoordinator(entry, group_info, update_interval) ==
    [entry |-> entry, group_info |-> group_info,
     update_interval |-> update_interval, data |-> NoneV,
     last_update_success |-> TRUE, good |-> NoneV]

\* a response that carries a NAV value
Usable(resp) ==
    ~resp.exc /\ resp.status = 200 /\ resp.detail /\ resp.nav_stat
    /\ resp.value.t = "num"

\* one refresh of a coordinator: a returned record replaces data, an
\* exception leaves data as it was and clears last_update_success
AfterRefresh(c, r, resp) ==
    IF r.t = "data"
    THEN [c EXCEPT !.data = r, !.last_update_success = TRUE,
                   !.good = IF Usable(resp) THEN r ELSE @]
    ELSE [c EXCEPT !.last_update_success = FALSE]

----------------------------------------------------------------------------
(* SpecStats: calculate_group_stats on bounded entry lists *)

MaxStatsLen == 2

Entry(pv, scid, price, units, value, date) ==
    [pvNumber |-> pv, shareClassId |-> scid, price_per_unit |-> price,
     units_acquired |-> units, value_of_investment |-> value,
     investment_date |-> date]

\* identifier pairs: plain, empty, missing, and with the separator inside
StatsIds ==
    { <<Str(<<"a">>), Str(<<"a">>)>>,
      <<Str(<<"b">>), Str(<<"a">>)>>,
      <<Str(<<"a">>), Str(<<":", "a">>)>>,
      <<Str(<<"a", ":">>), Str(<<"a">>)>>,
      <<Str(<<>>), Str(<<"a">>)>>,
      <<Str(<<"a">>), Str(<<>>)>>,
      <<Absent, Str(<<"a">>)>> }

\* <<price, units, invested amount>>: well-formed, zero, absent, negative
\* and non-numeric
StatsNums ==
    { <<Num(10), Num(5), NoneV>>,
      <<Num(20), Num(1), NoneV>>,
      <<Num(20), Num(5), NoneV>>,
      <<Num(0), Num(5), NoneV>>,
      <<NoneV, Num(5), NoneV>>,
      <<Num(10), NoneV, Num(100)>>,
      <<Num(30), NoneV, Num(100)>>,
      <<Num(0), NoneV, Num(100)>>,
      <<Num(10), NoneV, NoneV>>,
      <<Num(10), Num(-5), NoneV>>,
      <<Str(<<"x">>), Num(5), NoneV>>,
      <<Num(10), Str(<<"x">>), NoneV>>,
      <<Num(10), NoneV, Str(<<"x">>)>>,
      <<Num(0), NoneV, Str(<<"x">>)>>,
      <<Num(10), Num(5), Str(<<"x">>)>> }

StatsEntries ==
    { Entry(id[1], id[2], Num(10), Num(5), NoneV, NoneV) : id \in StatsIds }
    \cup
    { Entry(Str(<<p>>), Str(<<"a">>), n[1], n[2], n[3], NoneV) :
          p \in {"a", "b"}, n \in StatsNums }

Idle == [t |-> "idle"]

InitStats ==
    /\ entries \in UNION { [1..n -> StatsEntries] : n \in 0..MaxStatsLen }
    /\ result = NoneV
    /\ source = "none"
    /\ phase = "none"
    /\ idx = 0
    /\ group_stats = NoneV
    /\ coords = <<>>
    /\ published = {}
    /\ last = Idle
    /\ flow = Idle
    /\ stored = Idle

CallStats ==
    /\ result = NoneV
    /\ result' = calculate_group_stats(entries)
    /\ UNCHANGED <<entries, source, phase, idx, group_stats, coords, published,
                   last, flow, stored>>

NextStats == CallStats

SpecStats == InitStats /\ [][NextStats]_vars

----------------------------------------------------------------------------
(* SpecOrder: calculate_group_stats on lists long enough for the order of a
   group's purchases to matter, among them a purchase of 2^MantissaBits units *)

MaxOrderLen == 3

OrderEntries ==
    LET a == Str(<<"a">>)
        b == Str(<<"b">>)
    IN  { Entry(a, a, Num(1), Num(Pow2(MantissaBits)), NoneV, NoneV),
          Entry(a, a, Num(1), Num(1), NoneV, NoneV),
          Entry(a, a, Num(10), Num(5), NoneV, NoneV),
          Entry(b, a, Num(20), NoneV, Num(100), NoneV),
          Entry(Str(<<>>), a, Num(10), Num(5), NoneV, NoneV) }

InitOrder ==
    /\ entries \in UNION { [1..n -> OrderEntries] : n \in 0..MaxOrderLen }
    /\ result = NoneV
    /\ source = "none"
    /\ phase = "none"
    /\ idx = 0
    /\ group_stats = NoneV
    /\ coords = <<>>
    /\ published = {}
    /\ last = Idle
    /\ flow = Idle
    /\ stored = Idle

NextOrder == CallStats

SpecOrder == InitOrder /\ [][NextOrder]_vars

----------------------------------------------------------------------------
(* Spec: platform setup and the refresh cycles *)

MaxEntries == 2

P1 == Str(<<"P">>)
S1 == Str(<<"S">>)
S2 == Str(<<"T">>)

\* entries the config and options flows can store: the pool identifier is the
\* lookup's answer, or missing when the options flow stored an entry whose
\* lookup found nothing
UiEntries ==
    { Entry(P1, S1, Num(10), Num(5), NoneV, NoneV),
      Entry(P1, S1, Num(20), Num(5), NoneV, NoneV),
      Entry(P1, S1, Num(20), Num(1), NoneV, NoneV),
      Entry(P1, S1, Num(30), NoneV, Num(100), NoneV),
      Entry(P1, S1, Num(0), Num(5), NoneV, NoneV),
      Entry(P1, S2, Num(10), NoneV, NoneV, NoneV),
      Entry(Absent, S1, Num(10), Num(5), NoneV, NoneV) }

\* entries PLATFORM_SCHEMA accepts: both identifiers are strings, possibly empty
YamlEntries ==
    { Entry(P1, S1, Num(10), Num(5), NoneV, NoneV),
      Entry(P1, S1, Num(20), Num(5), NoneV, NoneV),
      Entry(Str(<<>>), S1, Num(10), Num(5), NoneV, NoneV),
      Entry(P1, Str(<<>>), Num(0), Num(5), NoneV, NoneV) }

Responses ==
    { Response(TRUE, 0, FALSE, FALSE, NoneV),
      Response(FALSE, 500, FALSE, FALSE, NoneV),
      Response(FALSE, 200, FALSE, FALSE, NoneV),
      Response(FALSE, 200, TRUE, FALSE, NoneV),
      Response(FALSE, 200, TRUE, TRUE, NoneV),
      Response(FALSE, 200, TRUE, TRUE, Num(12)),
      Response(FALSE, 200, TRUE, TRUE, Num(50)) }

Lists(D, n) == UNION { [1..k -> D] : k \in 0..n }

DEFAULT_SCAN_INTERVAL == 3600

\* vol.All(int, vol.Clamp(min=60, max=86400)) of the settings forms
Clamp(x) == IF x < 60 THEN 60 ELSE IF x > 86400 THEN 86400 ELSE x

\* scan intervals a user writes, in a settings form or in YAML
ScanInputs == {30, 100000}

\* what the config and options flows store: the form's value, clamped
UiScanIntervals == { Clamp(x) : x \in ScanInputs }

\* what PLATFORM_SCHEMA hands to async_setup_platform: cv.positive_int of the
\* value written, DEFAULT_SCAN_INTERVAL when none is
YamlScanIntervals == ScanInputs \cup {DEFAULT_SCAN_INTERVAL}

Init ==
    /\ source \in {"ui", "yaml"}
    /\ entries \in Lists(IF source = "ui" THEN UiEntries ELSE YamlEntries, MaxEntries)
    /\ result = NoneV
    /\ phase = "not_loaded"
    /\ idx = 0
    /\ group_stats = NoneV
    /\ coords = <<>>
    /\ published = {}
    /\ last = Idle
    /\ flow = Idle
    /\ stored \in IF source = "ui"
                  THEN { [t |-> "config_entry", scan_interval |-> x] :
                             x \in UiScanIntervals }
                  ELSE { [t |-> "platform", scan_interval |-> x] :
                             x \in YamlScanIntervals }

\* async_setup_entry lines 95-104 / async_setup_platform lines 67-74; a
\* config entry whose setup was not ready is set up again later
SetupStart ==
    /\ phase \in {"not_loaded", "setup_retry"}
    /\ LET gs == calculate_group_stats(entries)
       IN  IF gs.t = "raise"
           THEN /\ phase' = "setup_failed"
                /\ last' = [t |-> "failed", i |-> 0, resp |-> NoneV, e |-> gs.e]
                /\ UNCHANGED <<group_stats, idx>>
           ELSE /\ phase' = "setting_up"
                /\ group_stats' = gs.g
                /\ idx' = 1
                /\ last' = Idle
    /\ coords' = <<>>
    /\ published' = {}
    /\ UNCHANGED <<entries, result, source, flow, stored>>

\* one pass of the loop, lines 105-118 / 75-88: the coordinator is created
\* and its first refresh awaited; a first refresh that fails raises out of
\* the setup function, so nothing is handed to async_add_entities
SetupEntry(resp) ==
    /\ phase = "setting_up"
    /\ idx <= Len(entries)
    /\ LET c == FundCoordinator(entries[idx], GroupInfo(group_stats, entries[idx]),
                                 stored.scan_interval)
           r == _async_update_data(c.entry, c.group_info, resp)
       IN  IF r.t = "data"
           THEN /\ coords' = Append(coords, AfterRefresh(c, r, resp))
                /\ idx' = idx + 1
                /\ UNCHANGED <<phase, last>>
           ELSE /\ phase' = IF source = "ui" THEN "setup_retry" ELSE "setup_failed"
                /\ last' = [t |-> "failed", i |-> idx, resp |-> resp, e |-> r.e]
                /\ UNCHANGED <<coords, idx>>
    /\ UNCHANGED <<entries, result, source, group_stats, published, flow, stored>>

\* line 120 / 90: async_add_entities(sensors)
SetupAddEntities ==
    /\ phase = "setting_up"
    /\ idx > Len(entries)
    /\ published' = 1..Len(entries)
    /\ phase' = "loaded"
    /\ UNCHANGED <<entries, result, source, idx, group_stats, coords, last,
                   flow, stored>>

\* a scheduled refresh of one coordinator that has listeners
Refresh(i, resp) ==
    /\ phase = "loaded"
    /\ i \in published
    /\ LET c == coords[i]
           r == _async_update_data(c.entry, c.group_info, resp)
       IN  coords' = [coords EXCEPT ![i] = AfterRefresh(c, r, resp)]
    /\ UNCHANGED <<entries, result, source, phase, idx, group_stats, published,
                   last, flow, stored>>

Next ==
    \/ SetupStart
    \/ \E resp \in Responses : SetupEntry(resp)
    \/ SetupAddEntities
    \/ \E i \in 1..Len(entries), resp \in Responses : Refresh(i, resp)

Spec == Init /\ [][Next]_vars

----------------------------------------------------------------------------
(* config_flow.py: helpers *)

\* what the search endpoint answered: the request failed (exception or
\* status other than 200), or a list of hits, each with a pvNumber or none
SearchResponse(ok, hits) == [ok |-> ok, hits |-> hits]

RECURSIVE FirstPv(_)
FirstPv(hits) ==
    IF hits = <<>> THEN NoneV
    ELSE IF Truthy(Head(hits)) THEN Head(hits)
    ELSE FirstPv(Tail(hits))

\* lines 258-280
_fetch_pvnumber(share_class_id, search) ==
    IF ~Truthy(share_class_id) THEN NoneV
    ELSE IF ~search.ok THEN NoneV
    ELSE FirstPv(search.hits)

\* the entry form's data (lines 283-297) after the form schema filled the
\* defaults in: text fields are strings, the price a float, no pvNumber yet.
\* Name and currency are any strings and are left out.
UserInput(scid, date, value, price, units) ==
    [pvNumber |-> Absent, shareClassId |-> scid, investment_date |-> date,
     value_of_investment |-> value, price_per_unit |-> price,
     units_acquired |-> units]

\* defaults = defaults or {}
EmptyEntry == Entry(Absent, Absent, Absent, Absent, Absent, Absent)

\* lines 241-248 for one key: defaults.get(key) if use_defaults else None
\* stands in for an empty or unparsable text
NormalizeNumber(raw0, default, use_defaults) ==
    LET raw == Get(raw0)
        fallback == IF use_defaults THEN Get(default) ELSE NoneV
    IN  IF raw.t = "none" \/ raw = Str(<<>>) THEN fallback
        ELSE IF float(raw).t = "raise" THEN fallback
        ELSE float(raw)

\* lines 234-255; defaults is the entry being edited, or EmptyEntry
_normalize_optional_numbers(entry, defaults, use_defaults) ==
    [entry EXCEPT
       !.value_of_investment =
           NormalizeNumber(@, defaults.value_of_investment, use_defaults),
       !.units_acquired =
           NormalizeNumber(@, defaults.units_acquired, use_defaults),
       !.investment_date =
           IF Get(@).t = "none" \/ Get(@) = Str(<<>>)
           THEN IF use_defaults THEN Get(defaults.investment_date) ELSE NoneV
           ELSE @]

\* cv.string on a required or present key
IsString(v) == v.t \in {"str", "num"}

\* vol.Coerce(float)
Coercible(v) == v.t \in {"num", "str"} /\ float(v).t # "raise"

\* ENTRY_SCHEMA(entry) does not raise (sensor.py lines 37-48)
SchemaAccepts(entry) ==
    /\ IsString(entry.pvNumber)
    /\ IsString(entry.shareClassId)
    /\ entry.investment_date.t = "absent" \/ IsString(entry.investment_date)
    /\ \/ entry.value_of_investment.t \in {"absent", "none"}
       \/ Coercible(entry.value_of_investment)
    /\ Coercible(entry.price_per_unit)
    /\ \/ entry.units_acquired.t \in {"absent", "none"}
       \/ Coercible(entry.units_acquired)

\* lines 222-231: the errors dict, as a set of <<field, code>>
_validate_entry(entry) ==
    IF ~SchemaAccepts(entry) THEN {<<"base", "invalid_entry">>}
    ELSE IF ~Truthy(Get(entry.price_per_unit)) THEN {<<"price_per_unit", "required">>}
    ELSE {}

----------------------------------------------------------------------------
(* SpecFlow: the config flow and the options flow *)

\* The list object self._entries of the config flow is the one handed to the
\* config entry as options["entries"] (line 102), and the options flow takes
\* that same object (lines 126-128): all three are the variable entries.

D1 == Str(<<"d">>)

FormInputs ==
    { UserInput(S1, D1, Str(<<>>), Num(10), Str(<<"5">>)),
      UserInput(S1, Str(<<>>), Str(<<>>), Num(10), Str(<<>>)),
      UserInput(S1, D1, Str(<<>>), Num(10), Str(<<"x">>)),
      UserInput(S1, D1, Str(<<>>), Num(0), Str(<<"5">>)) }

SearchResponses ==
    { SearchResponse(FALSE, <<>>),
      SearchResponse(TRUE, <<NoneV>>),
      SearchResponse(TRUE, <<NoneV, P1>>) }

\* GSFundsConfigFlow.async_step_entry lines 61-75 on a submitted form:
\* the list afterwards, the errors, and whether the entry was stored
ConfigEntryForm(es, user_input, search) ==
    LET pv == _fetch_pvnumber(user_input.shareClassId, search)
        entry_errors == IF ~Truthy(pv) THEN _validate_entry(user_input) ELSE {}
        with_pv == IF Truthy(pv) THEN [user_input EXCEPT !.pvNumber = pv]
                   ELSE user_input
    IN  IF entry_errors # {}
        THEN [entries |-> es, errors |-> entry_errors, stored |-> FALSE]
        ELSE [entries |-> Append(es, _normalize_optional_numbers(with_pv, EmptyEntry, TRUE)),
              errors |-> {}, stored |-> TRUE]

\* GSFundsOptionsFlowHandler._entry_form lines 195-216 on a submitted form;
\* edit_index is 0-based, -1 for None
_entry_form(es, user_input, edit_index, search) ==
    LET defaults == IF edit_index # -1 THEN es[edit_index + 1] ELSE EmptyEntry
        pv == _fetch_pvnumber(user_input.shareClassId, search)
        with_pv == IF Truthy(pv) THEN [user_input EXCEPT !.pvNumber = pv]
                   ELSE user_input
        entry_errors ==
            IF ~Truthy(pv) THEN {}
            ELSE _validate_entry(_normalize_optional_numbers(with_pv, defaults, FALSE))
    IN  IF entry_errors # {}
        THEN [entries |-> es, errors |-> entry_errors, stored |-> FALSE]
        ELSE LET normalized == _normalize_optional_numbers(with_pv, defaults, TRUE)
             IN  [entries |-> IF edit_index = -1 THEN Append(es, normalized)
                              ELSE [es EXCEPT ![edit_index + 1] = normalized],
                  errors |-> {}, stored |-> TRUE]

InitFlow ==
    /\ entries = <<>>
    /\ flow = Idle
    /\ stored = Idle
    /\ result = NoneV
    /\ source = "ui"
    /\ phase = "not_loaded"
    /\ idx = 0
    /\ group_stats = NoneV
    /\ coords = <<>>
    /\ published = {}
    /\ last = Idle

FlowFrame == UNCHANGED <<result, source, phase, idx, group_stats, coords,
                         published, last>>

\* GSFundsConfigFlow.__init__ (lines 36-40) and the first form
ConfigFlowStart ==
    /\ flow = Idle
    /\ stored = Idle
    /\ flow' = [t |-> "config", step |-> "user",
                scan_interval |-> DEFAULT_SCAN_INTERVAL, editing_index |-> -1,
                errors |-> {}]
    /\ entries' = <<>>
    /\ UNCHANGED stored
    /\ FlowFrame

\* lines 42-47, the form's data clamped by its schema (lines 52-54)
async_step_user(scan) ==
    /\ flow.t = "config"
    /\ flow.step = "user"
    /\ flow' = [flow EXCEPT !.scan_interval = Clamp(scan), !.step = "entry"]
    /\ UNCHANGED <<entries, stored>>
    /\ FlowFrame

\* lines 59-78
async_step_entry(user_input, search) ==
    /\ flow.t = "config"
    /\ flow.step = "entry"
    /\ LET r == ConfigEntryForm(entries, user_input, search)
       IN  /\ Len(r.entries) <= MaxEntries
           /\ entries' = r.entries
           /\ flow' = [flow EXCEPT !.errors = r.errors,
                                   !.step = IF r.stored THEN "more" ELSE "entry"]
    /\ UNCHANGED stored
    /\ FlowFrame

\* lines 80-88 and _create_entry lines 95-104
async_step_more(add_another) ==
    /\ flow.t = "config"
    /\ flow.step = "more"
    /\ IF add_another \/ entries = <<>>
       THEN /\ flow' = [flow EXCEPT !.step = "entry", !.errors = {}]
            /\ UNCHANGED stored
       ELSE /\ stored' = [t |-> "config_entry", scan_interval |-> flow.scan_interval]
            /\ flow' = Idle
    /\ UNCHANGED entries
    /\ FlowFrame

\* GSFundsOptionsFlowHandler.__init__ (lines 118-129) and the first form;
\* changed is history: a step of this flow has altered the stored list
OptionsFlowOpen ==
    /\ flow = Idle
    /\ stored # Idle
    /\ flow' = [t |-> "options", step |-> "init",
                scan_interval |-> stored.scan_interval, editing_index |-> -1,
                errors |-> {}, changed |-> FALSE]
    /\ UNCHANGED <<entries, stored>>
    /\ FlowFrame

\* lines 131-135
async_step_init(scan) ==
    /\ flow.t = "options"
    /\ flow.step = "init"
    /\ flow' = [flow EXCEPT !.scan_interval = Clamp(scan), !.step = "entries_menu"]
    /\ UNCHANGED <<entries, stored>>
    /\ FlowFrame

\* lines 147-167 and _create_entry lines 184-192; the form offers edit and
\* delete, with an index into the list, only when the list is not empty
async_step_entries_menu(action, index) ==
    /\ flow.t = "options"
    /\ flow.step = "entries_menu"
    /\ action \in (IF entries # <<>> THEN {"add", "edit", "delete", "finish"}
                    ELSE {"add", "finish"})
    /\ index \in (IF entries # <<>> THEN 0..(Len(entries) - 1) ELSE {-1})
    /\ CASE action = "add" ->
              /\ flow' = [flow EXCEPT !.step = "entry_add", !.errors = {}]
              /\ UNCHANGED <<entries, stored>>
         [] action = "edit" ->
              /\ flow' = [flow EXCEPT !.step = "entry_edit", !.errors = {},
                                      !.editing_index = index]
              /\ UNCHANGED <<entries, stored>>
         [] action = "delete" ->
              /\ entries' = [k \in 1..(Len(entries) - 1) |->
                                IF k <= index THEN entries[k] ELSE entries[k + 1]]
              /\ flow' = [flow EXCEPT !.changed = TRUE]
              /\ UNCHANGED stored
         [] action = "finish" ->
              IF entries = <<>>
              THEN /\ flow' = [flow EXCEPT !.step = "entry_add", !.errors = {}]
                   /\ UNCHANGED <<entries, stored>>
              ELSE /\ stored' = [t |-> "config_entry",
                                  scan_interval |-> flow.scan_interval]
                   /\ flow' = Idle
                   /\ UNCHANGED entries
    /\ FlowFrame

\* lines 176-178 with _entry_form
async_step_entry_add(user_input, search) ==
    /\ flow.t = "options"
    /\ flow.step = "entry_add"
    /\ LET r == _entry_form(entries, user_input, -1, search)
       IN  /\ Len(r.entries) <= MaxEntries
           /\ entries' = r.entries
           /\ flow' = [flow EXCEPT !.errors = r.errors,
                                   !.step = IF r.stored THEN "entries_menu" ELSE @,
                                   !.changed = @ \/ r.entries # entries]
    /\ UNCHANGED stored
    /\ FlowFrame

\* lines 180-182 with _entry_form
async_step_entry_edit(user_input, search) ==
    /\ flow.t = "options"
    /\ flow.step = "entry_edit"
    /\ LET r == _entry_form(entries, user_input, flow.editing_index, search)
       IN  /\ entries' = r.entries
           /\ flow' = [flow EXCEPT !.errors = r.errors,
                                   !.step = IF r.stored THEN "entries_menu" ELSE @,
                                   !.changed = @ \/ r.entries # entries]
    /\ UNCHANGED stored
    /\ FlowFrame

NextFlow ==
    \/ ConfigFlowStart
    \/ \E scan \in ScanInputs : async_step_user(scan)
    \/ \E u \in FormInputs, q \in SearchResponses : async_step_entry(u, q)
    \/ \E b \in BOOLEAN : async_step_more(b)
    \/ OptionsFlowOpen
    \/ \E scan \in ScanInputs : async_step_init(scan)
    \/ \E a \in {"add", "edit", "delete", "finish"}, i \in -1..(MaxEntries - 1) :
          async_step_entries_menu(a, i)
    \/ \E u \in FormInputs, q \in SearchResponses : async_step_entry_add(u, q)
    \/ \E u \in FormInputs, q \in SearchResponses : async_step_entry_edit(u, q)

SpecFlow == InitFlow /\ [][NextFlow]_vars

----------------------------------------------------------------------------
(* Properties of calculate_group_stats, stated on its input and output *)

\* entries with both identifiers non-empty
ValidIdx(es) ==
    { i \in 1..Len(es) :
        Truthy(Get(es[i].pvNumber)) /\ Truthy(Get(es[i].shareClassId)) }

IdPairs(es) == { <<es[i].pvNumber.s, es[i].shareClassId.s>> : i \in ValidIdx(es) }

Members(es, k) == { i \in 1..Len(es) : _group_key(es[i]) = Str(k) }

\* the price and the units an entry stands for: units if present, else
\* invested amount / price if that is present and the price nonzero, else 0
PriceOf(e) ==
    LET p == Get(e.price_per_unit) IN IF p.t = "num" THEN p ELSE Zero

OwnUnits(e) ==
    LET u == Get(e.units_acquired)
        v == Get(e.value_of_investment)
        p == PriceOf(e)
    IN  IF u.t = "num" THEN u
        ELSE IF v.t = "num" /\ v.n # 0 /\ p.n # 0 THEN RDiv(v, p)
        ELSE Zero

RECURSIVE RSum(_, _)
RSum(S, f) ==
    IF S = {} THEN Zero
    ELSE LET x == CHOOSE y \in S : TRUE
         IN  RAdd(f[x], RSum(S \ {x}, f))

\* C4: the keys of the output are in one-to-one correspondence with the
\* distinct (pool, share class) pairs of the entries that have both
\* identifiers non-empty.
C4_KeysArePairs ==
    result.t = "groups" =>
        /\ Cardinality(DOMAIN result.g) = Cardinality(IdPairs(entries))
        /\ \A i, j \in ValidIdx(entries) :
              (\E k \in DOMAIN result.g : {i, j} \subseteq Members(entries, k))
              <=> (entries[i].pvNumber = entries[j].pvNumber
                   /\ entries[i].shareClassId = entries[j].shareClassId)

\* C5: per group, weighted_sum is the sum of price x units of its members,
\* total_units the sum of their units, avg_price the quotient rounded to four
\* places (so avg_price x total_units is within half a unit of the fourth
\* place, per unit, of weighted_sum), and avg_price is 0 when total_units is 0.
C5_GroupArithmetic ==
    result.t = "groups" =>
        \A k \in DOMAIN result.g :
            LET m == Members(entries, k)
                ws == RSum(m, [i \in m |-> RMul(PriceOf(entries[i]), OwnUnits(entries[i]))])
                tu == RSum(m, [i \in m |-> OwnUnits(entries[i])])
                g == result.g[k]
            IN  /\ g.weighted_sum = ws
                /\ g.total_units = tu
                /\ tu.n # 0 =>
                      /\ g.avg_price = round(RDiv(ws, tu), 4)
                      /\ RLeq(RAbs(RSub(RMul(g.avg_price, tu), ws)),
                              RMul(RAbs(tu), Rat(1, 20000)))
                /\ tu.n = 0 => g.avg_price = Zero

\* a group of two purchases whose average is not a four-place decimal
C5_Witness ==
    /\ result.t = "groups"
    /\ \E k \in DOMAIN result.g :
          /\ Cardinality(Members(entries, k)) = 2
          /\ result.g[k].total_units.n # 0
          /\ RMul(result.g[k].avg_price, result.g[k].total_units)
                # result.g[k].weighted_sum

\* C10: the call never raises; every group of the list is in the output
\* whatever the numeric fields of the entries hold.
C10_NeverRaises ==
    result.t # "none" =>
        /\ result.t = "groups"
        /\ \A i \in ValidIdx(entries) :
              \E k \in DOMAIN result.g : i \in Members(entries, k)

\* the lists that hold the entries of es in another order
Perms(n) == { p \in [1..n -> 1..n] : \A i, j \in 1..n : p[i] = p[j] => i = j }
Permuted(es, p) == [i \in 1..Len(es) |-> es[p[i]]]

----------------------------------------------------------------------------
(* Properties of the refresh cycles *)

Grouped(e) == Truthy(_group_key(e))

\* C1: what a coordinator publishes is exactly the record of its most recent
\* cycle that got a usable NAV; a failed cycle (transport error, bad status,
\* missing or null NAV) neither clears nor overwrites it.
C1_LastGoodRetained ==
    \A i \in DOMAIN coords : coords[i].data = coords[i].good

\* a published entry whose latest cycle failed and that still shows a record
C1_Witness ==
    \E i \in published :
        /\ ~coords[i].last_update_success
        /\ coords[i].data.t = "data"

\* C6: a record valued at effective price 0 has profit 0 and return 0, and no
\* cycle ends in an arithmetic error.
C6_ZeroPrice ==
    /\ \A i \in DOMAIN coords :
          (coords[i].data.t = "data" /\ coords[i].data.acquisition_price = Zero)
          => (coords[i].data.profit = Zero /\ coords[i].data.return_pct = Zero)
    /\ last.t = "failed" => last.e \in {"UpdateFailed", "KeyError"}

\* price 0, units 5, NAV 50, published
C6_Witness ==
    \E i \in published :
        /\ coords[i].data.t = "data"
        /\ coords[i].data.acquisition_price = Zero
        /\ coords[i].data.nav = Num(50)
        /\ coords[i].data.units_aquired = Num(5)

\* C7: with a nonzero effective price, profit is (NAV - effective price) x the
\* entry's own units rounded to 2 places, return is (NAV / effective price - 1)
\* x 100 rounded to 2 places, and a grouped entry's effective price is the
\* group's average price.
C7_ProfitOwnUnits ==
    \A i \in DOMAIN coords :
        LET d == coords[i].data
            e == coords[i].entry
        IN  (d.t = "data" /\ d.acquisition_price.n # 0) =>
              /\ d.profit = round(RMul(RSub(d.nav, d.acquisition_price), OwnUnits(e)), 2)
              /\ d.return_pct =
                    round(RMul(RSub(RDiv(d.nav, d.acquisition_price), Num(1)), Num(100)), 2)
              /\ Grouped(e) => d.acquisition_price = group_stats[_group_key(e).s].avg_price

\* a published entry of a group of two purchases, with a profit, whose own
\* units are not the group's
C7_Witness ==
    \E i \in published :
        LET d == coords[i].data
            e == coords[i].entry
        IN  /\ d.t = "data"
            /\ Grouped(e)
            /\ Cardinality(Members(entries, _group_key(e).s)) = 2
            /\ group_stats[_group_key(e).s].total_units # OwnUnits(e)
            /\ d.acquisition_price # PriceOf(e)
            /\ d.profit.n # 0

\* C8: a grouped entry is valued with the group's average price and total
\* units; an entry lacking an identifier is valued on its own price and units,
\* and its cycle completes whenever the NAV source answers with a NAV.
C8_EffectiveSelection ==
    /\ \A i \in DOMAIN coords :
          LET d == coords[i].data
              e == coords[i].entry
          IN  d.t = "data" =>
                IF Grouped(e)
                THEN /\ d.acquisition_price = group_stats[_group_key(e).s].avg_price
                     /\ d.units = _format_units(group_stats[_group_key(e).s].total_units)
                ELSE /\ d.acquisition_price = PriceOf(e)
                     /\ d.units = _format_units(OwnUnits(e))
                     /\ d.profit = IF PriceOf(e).n = 0 THEN Zero
                                    ELSE round(RMul(RSub(d.nav, PriceOf(e)), OwnUnits(e)), 2)
    /\ (last.t = "failed" /\ last.i > 0 /\ Usable(last.resp))
          => Grouped(entries[last.i])

\* C9: when the first refresh of one entry fails, every other entry is still
\* set up and has its sensors published.
C9_FailureIsolation ==
    (phase \in {"setup_retry", "setup_failed"} /\ last.t = "failed"
     /\ last.e = "UpdateFailed")
        => \A j \in (1..Len(entries)) \ {last.i} : j \in published

\* the five kinds of failed fetch: transport exception or timeout, status
\* other than 200, no fund detail, no netAssetValue stat, null value
FetchFailure(resp) ==
    \/ resp.exc
    \/ resp.status # 200
    \/ ~resp.detail
    \/ ~resp.nav_stat
    \/ resp.value.t = "none"

\* the request of lines 196-204 was sent: the payload of lines 181-193 was built
RequestSent(e) == e.pvNumber.t # "absent" /\ e.shareClassId.t # "absent"

\* C11: a first refresh whose request was sent and whose fetch failed in one
\* of the five ways ended in UpdateFailed and created no coordinator record;
\* and every coordinator answers every failed fetch of a scheduled refresh
\* with UpdateFailed, keeping the record it had.
C11_FetchFailureClassified ==
    /\ (last.t = "failed" /\ last.i > 0 /\ RequestSent(entries[last.i])
          /\ FetchFailure(last.resp))
          => /\ last.e = "UpdateFailed"
             /\ Len(coords) = last.i - 1
             /\ published = {}
    /\ \A i \in DOMAIN coords : \A resp \in Responses :
          FetchFailure(resp) =>
              LET r == _async_update_data(coords[i].entry, coords[i].group_info, resp)
              IN  /\ r = Raise("UpdateFailed")
                  /\ AfterRefresh(coords[i], r, resp).data = coords[i].data

\* the first refresh of the second entry got a netAssetValue stat whose
\* value is null, after the first entry's cycle had produced a record
C11_Witness ==
    /\ last.t = "failed"
    /\ last.i = 2
    /\ ~last.resp.exc /\ last.resp.status = 200 /\ last.resp.nav_stat
    /\ last.resp.value.t = "none"
    /\ Len(coords) = 1
    /\ coords[1].data.t = "data"

\* C13: the aggregator and the valuation resolve an entry's units alike, to
\* the entry's units if present, else invested amount / price if that is
\* present and the price nonzero, else 0 (price 10, invested 100 gives 10);
\* and when setup is complete a group's total_units is the sum of the own
\* units in the records of its members.
C13_UnitsResolution ==
    /\ \A i \in DOMAIN coords :
          LET e == coords[i].entry
              d == coords[i].data
          IN  /\ OwnPriceUnits(e).units = OwnUnits(e)
              /\ Grouped(e) => EntryPriceUnits(e).units = OwnUnits(e)
              /\ d.t = "data" => d.units_aquired = OwnUnits(e)
    /\ LET x == Entry(P1, S1, Num(10), NoneV, Num(100), NoneV)
       IN  OwnPriceUnits(x).units = Num(10) /\ EntryPriceUnits(x).units = Num(10)
    /\ phase = "loaded" =>
          \A k \in DOMAIN group_stats :
              LET m == Members(entries, k)
              IN  group_stats[k].total_units
                    = RSum(m, [i \in m |-> coords[i].data.units_aquired])

\* setup is complete for a group of two entries, one of which gives its
\* invested amount and no units
C13_Witness ==
    /\ phase = "loaded"
    /\ \E k \in DOMAIN group_stats :
          /\ Cardinality(Members(entries, k)) = 2
          /\ \E i \in Members(entries, k) :
                /\ Get(entries[i].units_acquired).t = "none"
                /\ Truthy(Get(entries[i].value_of_investment))
                /\ coords[i].data.units_aquired.n # 0

\* C12: every coordinator is created with a refresh interval of 60 to 86400
\* seconds, whether the settings came from the flows or from YAML.
C12_IntervalClamped ==
    \A i \in DOMAIN coords :
        coords[i].update_interval >= 60 /\ coords[i].update_interval <= 86400

----------------------------------------------------------------------------
(* Properties of the entry list kept by the flows *)

\* C2: an entry whose share-class lookup found no pool is never appended to
\* or written into the entry list: every entry of the list has a pvNumber.
C2_PoolResolved ==
    \A i \in 1..Len(entries) : Truthy(Get(entries[i].pvNumber))

\* C3: every entry of the list has a present, nonzero price_per_unit.
C3_PricePresent ==
    \A i \in 1..Len(entries) : Truthy(Get(entries[i].price_per_unit))

\* C15: while an options flow is open and not finished, no step of it has
\* altered the entry list held by the stored configuration.
C15_StoredUntouched ==
    flow.t = "options" => ~flow.changed

====
